---- MODULE Spec2Model ----
(***************************************************************************)
(* Model of infra/recipe_modules/crosvm/examples/container_build_context.py *)
(*                                                                         *)
(*   def RunSteps(api):                                                    *)
(*       with api.crosvm.container_build_context():                        *)
(*           api.crosvm.step_in_container("Build", ["cargo", "build"])     *)
(*                                                                         *)
(* RunSteps is modelled statement by statement with the semantics of the   *)
(* Python `with` statement: the context manager is entered; when entering  *)
(* raises, the body is skipped and the manager is not exited; otherwise    *)
(* the body runs and the manager is exited exactly once, with the pending  *)
(* exception if the body raised; the exception propagates unless the exit  *)
(* suppresses it.                                                          *)
(*                                                                         *)
(* The collaborators (the crosvm recipe module: container_build_context    *)
(* and step_in_container) are not part of the source file.  Their          *)
(* outcomes and their effect on the container are modelled from the        *)
(* specification: acquire_build_context(), execute(), release.             *)
(***************************************************************************)
EXTENDS Naturals, Sequences, FiniteSets

VARIABLES
    pc,       \* position of the control flow of RunSteps
    ctx,      \* the container build context: "None", "Active", "TornDown"
    exc,      \* the exception in flight in RunSteps, "none" when there is none
    acqRes,   \* what acquire_build_context() returned in this invocation
    execRes,  \* what execute() returned in this invocation
    calls,    \* the collaborator calls of this invocation, in order
    outcome,  \* what the harness sees: "none", "Completed", "Failed"
    history   \* one record per finished invocation

vars == <<pc, ctx, exc, acqRes, execRes, calls, outcome, history>>

\* How many times the harness invokes RunSteps in a behaviour.
MaxRuns == 3

----------------------------------------------------------------------------
(* The collaborators, from the specification.                              *)

\* acquire_build_context(): a scoped handle, or ContextAcquisitionError.
AcquireOutcomes == {"ok", "ContextAcquisitionError"}

\* execute(): exit status 0, StepExecutionError (non-zero exit status) or
\* ContextError (the container became unusable mid-execution).
ExecuteOutcomes == {"ok", "StepExecutionError", "ContextError"}

\* The container after acquire_build_context() returned r, from state c.
acquire_build_context(c, r) == IF r = "ok" THEN "Active" ELSE c

\* The container after the release of the handle: torn down.
release(c) == "TornDown"

\* The release does not swallow the exception it is handed.
ReleaseSuppresses == FALSE

----------------------------------------------------------------------------
(* The static configuration of RunSteps.                                   *)

StepLabel == "Build"
StepCommand == <<"cargo", "build">>

AcquireCall == [op |-> "acquire_build_context", label |-> "", command |-> <<>>]
ExecuteCall == [op |-> "execute", label |-> StepLabel, command |-> StepCommand]
ReleaseCall == [op |-> "release", label |-> "", command |-> <<>>]

\* The number of calls of operation o in the sequence s.
Count(s, o) == Cardinality({i \in 1..Len(s) : s[i].op = o})

\* The record the harness keeps of a finished invocation.
Finished(o) ==
    [acq |-> acqRes, exec |-> execRes, calls |-> calls, outcome |-> o]

----------------------------------------------------------------------------
Init ==
    /\ pc = "idle"
    /\ ctx = "None"
    /\ exc = "none"
    /\ acqRes = "none"
    /\ execRes = "none"
    /\ calls = <<>>
    /\ outcome = "none"
    /\ history = <<>>

\* A plausible slip: the step is issued without the `with` around it.
Invoke_NoContext ==
    /\ pc \in {"idle", "done"}
    /\ Len(history) < MaxRuns
    /\ pc' = "body"
    /\ ctx' = "None"
    /\ exc' = "none"
    /\ acqRes' = "none"
    /\ execRes' = "none"
    /\ calls' = <<>>
    /\ outcome' = "none"
    /\ UNCHANGED history

\* The harness invokes RunSteps(api): a fresh frame, no context yet.
Invoke ==
    /\ pc \in {"idle", "done"}
    /\ Len(history) < MaxRuns
    /\ pc' = "with_enter"
    /\ ctx' = "None"
    /\ exc' = "none"
    /\ acqRes' = "none"
    /\ execRes' = "none"
    /\ calls' = <<>>
    /\ outcome' = "none"
    /\ UNCHANGED history

\* A plausible slip: the context of an earlier invocation is reused, and
\* only the first invocation acquires one.
WithEnter_Cached ==
    /\ pc = "with_enter"
    /\ IF history = <<>>
         THEN /\ calls' = Append(calls, AcquireCall)
              /\ pc' = "acquiring"
              /\ UNCHANGED <<ctx, acqRes>>
         ELSE /\ calls' = calls
              /\ pc' = "body"
              /\ ctx' = "Active"
              /\ acqRes' = "ok"
    /\ UNCHANGED <<exc, execRes, outcome, history>>

\* `with api.crosvm.container_build_context():` calls the manager's enter.
WithEnter ==
    /\ pc = "with_enter"
    /\ calls' = Append(calls, AcquireCall)
    /\ pc' = "acquiring"
    /\ UNCHANGED <<ctx, exc, acqRes, execRes, outcome, history>>

\* A plausible slip: the failure to acquire is swallowed and the body runs.
WithEnterReturn_Swallow ==
    /\ pc = "acquiring"
    /\ \E r \in AcquireOutcomes :
         /\ acqRes' = r
         /\ ctx' = acquire_build_context(ctx, r)
         /\ pc' = "body"
         /\ UNCHANGED exc
    /\ UNCHANGED <<execRes, calls, outcome, history>>

\* A plausible slip: the acquisition sits inside the guarded block, so the
\* release runs although nothing was acquired.
WithEnterReturn_ReleaseAnyway ==
    /\ pc = "acquiring"
    /\ \E r \in AcquireOutcomes :
         /\ acqRes' = r
         /\ ctx' = acquire_build_context(ctx, r)
         /\ IF r = "ok"
              THEN pc' = "body" /\ UNCHANGED exc
              ELSE pc' = "stepdone" /\ exc' = r
    /\ UNCHANGED <<execRes, calls, outcome, history>>

\* The enter returns.  On success the body is next; when it raises, the
\* `with` statement runs neither the body nor the exit, and the exception
\* leaves RunSteps.
WithEnterReturn ==
    /\ pc = "acquiring"
    /\ \E r \in AcquireOutcomes :
         /\ acqRes' = r
         /\ ctx' = acquire_build_context(ctx, r)
         /\ IF r = "ok"
              THEN pc' = "body" /\ UNCHANGED exc
              ELSE pc' = "raise" /\ exc' = r
    /\ UNCHANGED <<execRes, calls, outcome, history>>

\* api.crosvm.step_in_container("Build", ["cargo", "build"])
StepCall ==
    /\ pc = "body"
    /\ calls' = Append(calls, ExecuteCall)
    /\ pc' = "step"
    /\ UNCHANGED <<ctx, exc, acqRes, execRes, outcome, history>>

\* A plausible slip: no `with`, so a failing step leaves RunSteps at once.
StepReturn_NoFinally ==
    /\ pc = "step"
    /\ \E r \in ExecuteOutcomes :
         /\ execRes' = r
         /\ exc' = IF r = "ok" THEN "none" ELSE r
         /\ pc' = IF r = "ok" THEN "stepdone" ELSE "raise"
    /\ UNCHANGED <<ctx, acqRes, calls, outcome, history>>

\* A plausible slip: only StepExecutionError is routed through the release.
StepReturn_OnlyStepError ==
    /\ pc = "step"
    /\ \E r \in ExecuteOutcomes :
         /\ execRes' = r
         /\ exc' = IF r = "ok" THEN "none" ELSE r
         /\ pc' = IF r = "ContextError" THEN "raise" ELSE "stepdone"
    /\ UNCHANGED <<ctx, acqRes, calls, outcome, history>>

\* A plausible slip: a failing step is tried once more.
StepReturn_Retry ==
    /\ pc = "step"
    /\ \E r \in ExecuteOutcomes :
         /\ execRes' = r
         /\ IF r # "ok" /\ Count(calls, "execute") < 2
              THEN pc' = "body" /\ exc' = "none"
              ELSE /\ pc' = "stepdone"
                   /\ exc' = IF r = "ok" THEN "none" ELSE r
    /\ UNCHANGED <<ctx, acqRes, calls, outcome, history>>

\* The step returns or raises; either way the body of the `with` is left.
StepReturn ==
    /\ pc = "step"
    /\ \E r \in ExecuteOutcomes :
         /\ execRes' = r
         /\ exc' = IF r = "ok" THEN "none" ELSE r
    /\ pc' = "stepdone"
    /\ UNCHANGED <<ctx, acqRes, calls, outcome, history>>

\* A plausible slip: the release runs on the normal path only.
WithExit_NormalPathOnly ==
    /\ pc = "stepdone"
    /\ IF exc = "none"
         THEN calls' = Append(calls, ReleaseCall) /\ pc' = "releasing"
         ELSE calls' = calls /\ pc' = "raise"
    /\ UNCHANGED <<ctx, exc, acqRes, execRes, outcome, history>>

\* Leaving the body, normally or by an exception, calls the manager's exit.
WithExit ==
    /\ pc = "stepdone"
    /\ calls' = Append(calls, ReleaseCall)
    /\ pc' = "releasing"
    /\ UNCHANGED <<ctx, exc, acqRes, execRes, outcome, history>>

\* A plausible slip: the exit swallows the exception of the body.
WithExitReturn_Swallow ==
    /\ pc = "releasing"
    /\ ctx' = release(ctx)
    /\ exc' = "none"
    /\ pc' = "return"
    /\ UNCHANGED <<acqRes, execRes, calls, outcome, history>>

\* The exit returns: the exception of the body, if any, is raised again
\* unless the exit suppressed it.
WithExitReturn ==
    /\ pc = "releasing"
    /\ ctx' = release(ctx)
    /\ IF exc # "none" /\ ~ReleaseSuppresses
         THEN pc' = "raise" /\ UNCHANGED exc
         ELSE pc' = "return" /\ exc' = "none"
    /\ UNCHANGED <<acqRes, execRes, calls, outcome, history>>

\* RunSteps ends normally: the harness reports Completed.
RunStepsReturn ==
    /\ pc = "return"
    /\ pc' = "done"
    /\ outcome' = "Completed"
    /\ history' = Append(history, Finished("Completed"))
    /\ UNCHANGED <<ctx, exc, acqRes, execRes, calls>>

\* A plausible slip: a failed invocation is started over until it succeeds.
RunStepsRaise_RetryForever ==
    /\ pc = "raise"
    /\ pc' = "with_enter"
    /\ ctx' = "None"
    /\ exc' = "none"
    /\ acqRes' = "none"
    /\ execRes' = "none"
    /\ calls' = <<>>
    /\ UNCHANGED <<outcome, history>>

\* An exception leaves RunSteps: the harness reports Failed.
RunStepsRaise ==
    /\ pc = "raise"
    /\ pc' = "done"
    /\ outcome' = "Failed"
    /\ history' = Append(history, Finished("Failed"))
    /\ UNCHANGED <<ctx, exc, acqRes, execRes, calls>>

\* The steps of one invocation, the harness's Invoke apart.
Run ==
    \/ WithEnter
    \/ WithEnterReturn
    \/ StepCall
    \/ StepReturn
    \/ WithExit
    \/ WithExitReturn
    \/ RunStepsReturn
    \/ RunStepsRaise

Next ==
    \/ Invoke
    \/ WithEnter
    \/ WithEnterReturn
    \/ StepCall
    \/ StepReturn
    \/ WithExit
    \/ WithExitReturn
    \/ RunStepsReturn
    \/ RunStepsRaise

Spec == Init /\ [][Next]_vars

\* Single-threaded and sequential: an invocation under way keeps stepping,
\* and every collaborator call returns.  The harness need not invoke again.
FairSpec == Spec /\ WF_vars(Run)

----------------------------------------------------------------------------
TypeOK ==
    /\ pc \in {"idle", "with_enter", "acquiring", "body", "step", "stepdone",
               "releasing", "return", "raise", "done"}
    /\ ctx \in {"None", "Active", "TornDown"}
    /\ exc \in {"none", "ContextAcquisitionError", "StepExecutionError",
                "ContextError"}
    /\ acqRes \in AcquireOutcomes \cup {"none"}
    /\ execRes \in ExecuteOutcomes \cup {"none"}
    /\ outcome \in {"none", "Completed", "Failed"}
    /\ Len(calls) <= 3
    /\ Len(history) <= MaxRuns

----------------------------------------------------------------------------
(* The properties.                                                         *)

Failures == {"ContextAcquisitionError", "StepExecutionError", "ContextError"}

BasicSequence == <<AcquireCall, ExecuteCall, ReleaseCall>>

\* s is an initial segment of t.
IsPrefix(s, t) == Len(s) <= Len(t) /\ \A i \in 1..Len(s) : s[i] = t[i]

\* C1: in the "basic" scenario, whenever the context is acquired, one
\* invocation of RunSteps makes exactly the calls acquire_build_context(),
\* execute("Build", ["cargo", "build"]), release, in this order and once
\* each, whether execute() succeeds or fails.
C1_BasicCallSequence ==
    /\ IsPrefix(calls, BasicSequence)
    /\ (pc = "done" /\ acqRes = "ok") => calls = BasicSequence
    /\ \A i \in 1..Len(history) :
         history[i].acq = "ok" => history[i].calls = BasicSequence

C1_Witness ==
    /\ pc = "done"
    /\ acqRes = "ok"
    /\ execRes \in Failures
    /\ \E i \in 1..Len(history) :
         history[i].acq = "ok" /\ history[i].exec = "ok"

\* C2: when execute() fails with StepExecutionError, the context is
\* released before the error reaches the harness: once the exception has
\* left the `with` statement the release has been called and the context
\* is torn down, and Failed is reported only then.
C2_ReleaseBeforeStepErrorPropagates ==
    (execRes = "StepExecutionError" /\ (pc \in {"raise", "done"} \/ outcome = "Failed"))
        => /\ ctx = "TornDown"
           /\ Count(calls, "release") = 1
           /\ calls[Len(calls)] = ReleaseCall

C2_Witness ==
    /\ execRes = "StepExecutionError"
    /\ outcome = "Failed"
    /\ ctx = "TornDown"

\* C3: when acquire_build_context() fails, execute() is never called in
\* that invocation: the invocation is on its way out, no step attempted.
C3_NoStepAfterAcquireFailure ==
    /\ acqRes = "ContextAcquisitionError"
         => /\ Count(calls, "execute") = 0
            /\ execRes = "none"
            /\ pc \in {"raise", "done"}
    /\ \A i \in 1..Len(history) :
         history[i].acq = "ContextAcquisitionError"
             => Count(history[i].calls, "execute") = 0

C3_Witness ==
    /\ acqRes = "ContextAcquisitionError"
    /\ pc = "done"
    /\ calls = <<AcquireCall>>

\* C4: both error kinds surface to the harness and nothing is retried or
\* swallowed: after a failure of acquire_build_context() or execute() the
\* invocation never ends Completed, it ends Failed, and neither
\* collaborator is called a second time.
C4_ErrorsSurfaceNoRetry ==
    (acqRes \in Failures \/ execRes \in Failures)
        => /\ outcome # "Completed"
           /\ pc # "return"
           /\ pc = "done" => outcome = "Failed"
           /\ Count(calls, "acquire_build_context") <= 1
           /\ Count(calls, "execute") <= 1
           /\ pc \notin {"with_enter", "acquiring", "body"}

C4_Witness ==
    /\ execRes \in Failures
    /\ pc = "done"
    /\ outcome = "Failed"
    /\ Len(history) >= 2
    /\ history[1].acq = "ContextAcquisitionError"

\* C5: the terminal outcome is Completed exactly when the acquisition and
\* the Build step both succeeded, Failed exactly when the acquisition or
\* the step failed, and no step is started after the first failure.
C5_TerminalOutcome ==
    /\ pc = "done" =>
         /\ outcome \in {"Completed", "Failed"}
         /\ outcome = "Completed" <=> (acqRes = "ok" /\ execRes = "ok")
         /\ outcome = "Failed" <=> (acqRes \in Failures \/ execRes \in Failures)
    /\ pc # "done" => outcome = "none"
    /\ (acqRes \in Failures \/ execRes \in Failures) => pc \notin {"body", "step"}
    /\ acqRes \in Failures => Count(calls, "execute") = 0

C5_Witness ==
    /\ pc = "done"
    /\ outcome = "Completed"
    /\ \E i \in 1..Len(history) : history[i].outcome = "Failed"

\* C6: two invocations in which the collaborators give the same outcomes
\* make the same sequence of collaborator calls: nothing of an earlier
\* invocation is carried into a later one.
C6_SameCallsOnRepeat ==
    \A i, j \in 1..Len(history) :
        (history[i].acq = history[j].acq /\ history[i].exec = history[j].exec)
            => history[i].calls = history[j].calls

C6_Witness ==
    \E i, j \in 1..Len(history) :
        /\ i < j
        /\ history[i].acq = "ok"
        /\ history[j].acq = "ok"
        /\ history[i].exec = history[j].exec
        /\ history[i].calls # <<>>

\* The lifecycle state of the specification, read off the program state.
Lifecycle ==
    CASE ctx = "TornDown" -> "ContextTornDown"
      [] ctx # "TornDown" /\ pc = "step" -> "StepRunning"
      [] ctx # "TornDown" /\ pc \in {"stepdone", "releasing"} -> "StepDone"
      [] ctx = "Active" /\ pc \notin {"step", "stepdone", "releasing"}
           -> "ContextActive"
      [] OTHER -> "Unstarted"

LifecycleOrder ==
    {<<"Unstarted", "ContextActive">>,
     <<"ContextActive", "StepRunning">>,
     <<"StepRunning", "StepDone">>,
     <<"StepDone", "StepRunning">>,
     <<"ContextActive", "ContextTornDown">>,
     <<"StepDone", "ContextTornDown">>,
     <<"ContextTornDown", "Unstarted">>}

StepOnlyWhileActive ==
    pc = "step" =>
        /\ ctx = "Active"
        /\ acqRes = "ok"
        /\ Count(calls, "acquire_build_context") = 1
        /\ Count(calls, "release") = 0

\* C7: the lifecycle moves only along Unstarted -> ContextActive ->
\* (StepRunning -> StepDone)* -> ContextTornDown (and back to Unstarted
\* with the next invocation), and execute() runs only while the context is
\* active: after the acquisition succeeded and before the release.
C7_Lifecycle ==
    /\ []StepOnlyWhileActive
    /\ [][Lifecycle' # Lifecycle => <<Lifecycle, Lifecycle'>> \in LifecycleOrder]_vars

C7_Witness ==
    /\ pc = "step"
    /\ ctx = "Active"
    /\ Len(history) >= 1
    /\ history[1].outcome = "Failed"

\* C8: the release does not depend on the kind of the error: when
\* execute() fails with ContextError the context is released exactly once
\* and the invocation ends Failed.
C8_ReleaseOnContextError ==
    /\ execRes = "ContextError" => Count(calls, "release") <= 1
    /\ (execRes = "ContextError" /\ pc \in {"raise", "done"})
         => /\ Count(calls, "release") = 1
            /\ ctx = "TornDown"
            /\ exc = "ContextError"
    /\ (execRes = "ContextError" /\ pc = "done") => outcome = "Failed"

C8_Witness ==
    /\ execRes = "ContextError"
    /\ pc = "done"
    /\ outcome = "Failed"
    /\ Count(calls, "release") = 1

\* C9: a release happens only for a context that was acquired and not yet
\* released: none after a failed acquisition, never more than one, never
\* before the acquisition.
C9_ReleaseOnlyAcquired ==
    /\ Count(calls, "release") <= 1
    /\ acqRes # "ok" => Count(calls, "release") = 0
    /\ pc = "releasing" => ctx = "Active"
    /\ \A i \in 1..Len(calls) :
         calls[i].op = "release"
             => \E j \in 1..(i - 1) : calls[j].op = "acquire_build_context"

C9_Witness ==
    /\ pc = "releasing"
    /\ ctx = "Active"
    /\ \E i \in 1..Len(history) :
         /\ history[i].acq = "ContextAcquisitionError"
         /\ Count(history[i].calls, "release") = 0

InRun == pc \notin {"idle", "done"}

\* C10: with every collaborator call returning, every invocation of
\* RunSteps reaches a terminal outcome, Completed or Failed, and holds no
\* active context there.
C10_TerminatesContextFree ==
    /\ InRun ~> (pc = "done")
    /\ [](pc = "done" => (outcome \in {"Completed", "Failed"} /\ ctx # "Active"))

C10_Witness ==
    /\ pc = "done"
    /\ ctx = "TornDown"
    /\ Len(history) = 2
    /\ history[1].outcome = "Completed"

====
